---- MODULE Spec2Model ----
(***************************************************************************)
(* Model of the chunk retrieval pipeline of bugnet/tools/read_file.py:     *)
(* ReadFileTool.run = extract_chunks -> truncate_chunks -> merge_chunks.   *)
(* The language-model call is an opaque collaborator: its (already         *)
(* json-decoded) response is an input of the run.                          *)
(***************************************************************************)
EXTENDS Integers, Sequences, FiniteSets, TLC

VARIABLES
    file,           \* the File the run reads (only last_lineno matters)
    response,       \* value of json_repair.loads(...) in extract_chunks
    pc,             \* position of the run
    chunks,         \* the List[Chunk] handed from stage to stage
    curr_chunk,     \* merge_chunks: curr_chunk
    idx,            \* merge_chunks: position of next_chunk in chunks
    merged_chunks,  \* merge_chunks: merged_chunks
    result,         \* the list the last call of merge_chunks returned
    outcome,        \* "none", "returned" or the exception that ended the run
    calls,          \* number of merge_chunks calls started
    merge_input,    \* the argument of the current merge_chunks call, as passed
    prev_result     \* what the previous merge_chunks call returned

vars == <<file, response, pc, chunks, curr_chunk, idx, merged_chunks, result,
          outcome, calls, merge_input, prev_result>>

----------------------------------------------------------------------------
(* Bounds of the explored inputs *)

MaxRanges == 2
MaxLine == 7
MaxSpan == 2
MaxCalls == 2

(* Program constant *)
MAX_CHUNK_DISTANCE == 5

----------------------------------------------------------------------------
(* Data *)

File(last) == [last_lineno |-> last]

Chunk(line_nums, f) == [line_nums |-> line_nums, file |-> f]

ChunkEq(a, b) == a.file = b.file /\ a.line_nums = b.line_nums

\* list(range(a, b + 1))
Range(a, b) == IF b < a THEN <<>> ELSE [i \in 1..(b - a + 1) |-> a + i - 1]

NoChunk == Chunk(<<>>, File(0))

----------------------------------------------------------------------------
(* extract_chunks, after the collaborator answered *)

\* the exception lines 112-113 raise on this response, or "none"
ParseError(resp) ==
    IF resp.kind # "object" THEN "TypeError"
    ELSE IF "line_ranges" \notin DOMAIN resp THEN "KeyError"
    ELSE IF \E i \in DOMAIN resp.line_ranges :
                ~({"start", "end"} \subseteq DOMAIN resp.line_ranges[i])
         THEN "KeyError"
    ELSE "none"

ValidRanges(line_ranges) == SelectSeq(line_ranges, LAMBDA lr : lr.start <= lr.end)

BuildChunks(line_ranges, f) ==
    [i \in DOMAIN line_ranges |->
        Chunk(Range(line_ranges[i].start, line_ranges[i].end), f)]

----------------------------------------------------------------------------
(* truncate_chunks *)

\* variant: the comparison excludes the last line itself
TruncateLinesStrict(chunk) ==
    SelectSeq(chunk.line_nums, LAMBDA ln : ln < chunk.file.last_lineno)

TruncateLines(chunk) ==
    SelectSeq(chunk.line_nums, LAMBDA ln : ln <= chunk.file.last_lineno)

\* variant: the emptiness test is missing
KeepChunkAlways(chunk) == TRUE

KeepChunk(chunk) == chunk.line_nums # <<>>

truncate_chunks(cs) ==
    SelectSeq([i \in DOMAIN cs |-> [cs[i] EXCEPT !.line_nums = TruncateLines(cs[i])]],
              KeepChunk)

----------------------------------------------------------------------------
(* merge_chunks *)

\* list.sort is stable: equal keys keep their input order
RECURSIVE SortByFirst(_)
SortByFirst(cs) ==
    IF cs = <<>> THEN <<>>
    ELSE LET last == cs[Len(cs)]
             rest == SortByFirst(SubSeq(cs, 1, Len(cs) - 1))
             k    == Cardinality({i \in DOMAIN rest :
                                     rest[i].line_nums[1] <= last.line_nums[1]})
         IN  SubSeq(rest, 1, k) \o <<last>> \o SubSeq(rest, k + 1, Len(rest))

is_overlapping(curr_end, next_start) == curr_end >= next_start

\* variant: the distance test is inclusive
is_within_distance_inclusive(curr_end, next_start) ==
    next_start - curr_end <= MAX_CHUNK_DISTANCE

is_within_distance(curr_end, next_start) ==
    next_start - curr_end < MAX_CHUNK_DISTANCE

\* variant: only overlapping chunks are merged
ShouldMergeOverlapOnly(curr_end, next_start) == is_overlapping(curr_end, next_start)

ShouldMerge(curr_end, next_start) ==
    is_overlapping(curr_end, next_start) \/ is_within_distance(curr_end, next_start)

\* variant: the end of the run is exclusive
MergedLinesExclusive(curr_start, next_end) == Range(curr_start, next_end - 1)

\* list(range(curr_start, next_end + 1))
MergedLines(curr_start, next_end) == Range(curr_start, next_end)

\* one iteration of the for loop
MergeIter(curr, next, merged) ==
    LET curr_start == curr.line_nums[1]
        curr_end   == curr.line_nums[Len(curr.line_nums)]
        next_start == next.line_nums[1]
        next_end   == next.line_nums[Len(next.line_nums)]
    IN  IF ShouldMerge(curr_end, next_start)
        THEN [curr_chunk |-> [curr EXCEPT !.line_nums = MergedLines(curr_start, next_end)],
              merged_chunks |-> merged]
        ELSE [curr_chunk |-> next, merged_chunks |-> Append(merged, curr)]

\* variant: the last chunk is never appended
FinalEmitNothing(merged, curr) == merged

\* merged_chunks.append(curr_chunk) after the loop
FinalEmit(merged, curr) == Append(merged, curr)

\* set(merged_chunks): one representative per class of equal chunks
Dedup(merged) ==
    {merged[i] : i \in {j \in DOMAIN merged :
                          ~\E k \in 1..(j - 1) : ChunkEq(merged[k], merged[j])}}

\* list(S): the elements of a set in some order
Orderings(S) ==
    {s \in [1..Cardinality(S) -> S] : \A i, j \in DOMAIN s : s[i] = s[j] => i = j}

RECURSIVE MergeLoop(_, _, _, _)
MergeLoop(cs, i, curr, merged) ==
    IF i > Len(cs) THEN FinalEmit(merged, curr)
    ELSE LET s == MergeIter(curr, cs[i], merged)
         IN  MergeLoop(cs, i + 1, s.curr_chunk, s.merged_chunks)

\* the set of chunks merge_chunks returns for this argument
merge_chunks(cs) ==
    IF cs = <<>> THEN {}
    ELSE LET sorted == SortByFirst(cs)
         IN  Dedup(MergeLoop(sorted, 2, sorted[1], <<>>))

----------------------------------------------------------------------------
(* Inputs *)

FileSizes == {MaxLine - 3, MaxLine}

Pairs == {[start |-> s, end |-> s + d] : s \in 0..MaxLine, d \in (-1)..MaxSpan}

RangeLists == UNION {[1..n -> Pairs] : n \in 0..MaxRanges}

Object(line_ranges) == [kind |-> "object", line_ranges |-> line_ranges]

P(s, e) == [start |-> s, end |-> e]

MalformedResponses ==
    { [kind |-> "array"], [kind |-> "string"], [kind |-> "object"],
      Object(<<[start |-> 1]>>), Object(<<[end |-> 2]>>),
      Object(<<P(1, 2), [start |-> 3]>>) }

Scenario(last, line_ranges) == <<File(last), Object(line_ranges)>>

EndToEnd   == Scenario(100, <<P(5, 8), P(7, 12), P(50, 200)>>)
Boundary24 == Scenario(100, <<P(10, 20), P(24, 30)>>)
Boundary25 == Scenario(100, <<P(10, 20), P(25, 30)>>)
Boundary26 == Scenario(100, <<P(10, 20), P(26, 30)>>)
Duplicates == Scenario(100, <<P(5, 8), P(5, 8), P(20, 22)>>)
Contained  == Scenario(100, <<P(10, 30), P(12, 15)>>)
ThreeApart == Scenario(100, <<P(21, 22), P(1, 2), P(11, 12)>>)

Scenarios ==
    {EndToEnd, Boundary24, Boundary25, Boundary26, Duplicates, Contained, ThreeApart}

Inputs ==
    ({File(n) : n \in FileSizes}
        \X ({Object(l) : l \in RangeLists} \cup MalformedResponses))
    \cup Scenarios

----------------------------------------------------------------------------
(* The run *)

Init ==
    /\ \E in \in Inputs : file = in[1] /\ response = in[2]
    /\ pc = "extract"
    /\ chunks = <<>>
    /\ curr_chunk = NoChunk
    /\ idx = 0
    /\ merged_chunks = <<>>
    /\ result = <<>>
    /\ outcome = "none"
    /\ calls = 0
    /\ merge_input = <<>>
    /\ prev_result = <<>>

\* extract_chunks, lines 111-115
Extract ==
    /\ pc = "extract"
    /\ IF ParseError(response) # "none"
       THEN /\ outcome' = ParseError(response)
            /\ pc' = "raised"
            /\ UNCHANGED chunks
       ELSE /\ chunks' = BuildChunks(ValidRanges(response.line_ranges), file)
            /\ pc' = "truncate"
            /\ UNCHANGED outcome
    /\ UNCHANGED <<file, response, curr_chunk, idx, merged_chunks, result, calls,
                   merge_input, prev_result>>

\* truncate_chunks, lines 118-129
Truncate ==
    /\ pc = "truncate"
    /\ chunks' = truncate_chunks(chunks)
    /\ pc' = "merge"
    /\ UNCHANGED <<file, response, curr_chunk, idx, merged_chunks, result, outcome,
                   calls, merge_input, prev_result>>

\* merge_chunks, lines 133-138: early return, sort, first chunk
MergeStart ==
    /\ pc = "merge"
    /\ calls' = calls + 1
    /\ merge_input' = chunks
    /\ prev_result' = result
    /\ merged_chunks' = <<>>
    /\ IF chunks = <<>>
       THEN /\ result' = <<>>
            /\ outcome' = "returned"
            /\ pc' = "done"
            /\ UNCHANGED <<chunks, curr_chunk, idx>>
       ELSE IF \E i \in DOMAIN chunks : chunks[i].line_nums = <<>>
       THEN /\ outcome' = "IndexError"
            /\ pc' = "raised"
            /\ UNCHANGED <<chunks, curr_chunk, idx, result>>
       ELSE /\ chunks' = SortByFirst(chunks)
            /\ curr_chunk' = chunks'[1]
            /\ idx' = 2
            /\ pc' = "loop"
            /\ UNCHANGED <<result, outcome>>
    /\ UNCHANGED <<file, response>>

\* merge_chunks, lines 139-149: one iteration of the loop.  The assignment to
\* curr_chunk.line_nums changes an object that sits at a position of chunks
\* before idx; the loop reads only chunks[idx] and later, so chunks keeps the
\* values it had when it was sorted.
MergeIterate ==
    /\ pc = "loop"
    /\ idx <= Len(chunks)
    /\ LET s == MergeIter(curr_chunk, chunks[idx], merged_chunks)
       IN  /\ curr_chunk' = s.curr_chunk
           /\ merged_chunks' = s.merged_chunks
    /\ idx' = idx + 1
    /\ UNCHANGED <<file, response, pc, chunks, result, outcome, calls, merge_input,
                   prev_result>>

\* merge_chunks, lines 151-154: last chunk, deduplication, return
MergeReturn ==
    /\ pc = "loop"
    /\ idx > Len(chunks)
    /\ merged_chunks' = FinalEmit(merged_chunks, curr_chunk)
    /\ result' \in Orderings(Dedup(merged_chunks'))
    /\ outcome' = "returned"
    /\ pc' = "done"
    /\ UNCHANGED <<file, response, chunks, curr_chunk, idx, calls, merge_input,
                   prev_result>>

\* merge_chunks called on the list merge_chunks returned
MergeAgain ==
    /\ pc = "done"
    /\ calls < MaxCalls
    /\ chunks' = result
    /\ pc' = "merge"
    /\ UNCHANGED <<file, response, curr_chunk, idx, merged_chunks, result, outcome,
                   calls, merge_input, prev_result>>

Next == Extract \/ Truncate \/ MergeStart \/ MergeIterate \/ MergeReturn \/ MergeAgain

Spec == Init /\ [][Next]_vars

----------------------------------------------------------------------------
(* Vocabulary of the properties *)

LineSet(chunk) == {chunk.line_nums[i] : i \in DOMAIN chunk.line_nums}

First(chunk) == chunk.line_nums[1]

Last(chunk) == chunk.line_nums[Len(chunk.line_nums)]

Elems(seq) == {seq[i] : i \in DOMAIN seq}

Lines(a, b) == Chunk(Range(a, b), file)

Boundaries(S) == {<<First(c), Last(c)>> : c \in S}

Returned == pc = "done" /\ outcome = "returned"

Normalized == pc = "merge" /\ calls = 0

Malformed ==
    \/ response.kind # "object"
    \/ "line_ranges" \notin DOMAIN response
    \/ \E i \in DOMAIN response.line_ranges :
           \/ "start" \notin DOMAIN response.line_ranges[i]
           \/ "end" \notin DOMAIN response.line_ranges[i]

Reorder(seq, p) == [i \in DOMAIN seq |-> seq[p[i]]]

----------------------------------------------------------------------------
(* C1 *)

\* C1: after truncate_chunks every line number of every chunk is >= 1 and
\* <= file.last_lineno, also for ranges that start below 1.
C1_LineNumsInFile ==
    Normalized =>
        \A i \in DOMAIN chunks : \A ln \in LineSet(chunks[i]) :
            ln >= 1 /\ ln <= file.last_lineno

----------------------------------------------------------------------------
(* C2 *)

\* C2 as stated: [10..20] and [25..30] come back as the single chunk [10..30],
\* [10..20] and [26..30] come back unchanged and separate.
C2_MergeBoundary ==
    (Returned /\ calls = 1) =>
        /\ merge_input = <<Lines(10, 20), Lines(25, 30)>>
              => Elems(result) = {Lines(10, 30)}
        /\ merge_input = <<Lines(10, 20), Lines(26, 30)>>
              => Elems(result) = {Lines(10, 20), Lines(26, 30)}

\* C2 amended: [10..20] and [25..30] stay separate (25 - 20 = 5 is not < 5), as
\* do [10..20] and [26..30]; [10..20] and [24..30] come back as [10..30].
C2_MergeBoundaryAmended ==
    (Returned /\ calls = 1) =>
        /\ merge_input = <<Lines(10, 20), Lines(24, 30)>>
              => Elems(result) = {Lines(10, 30)} /\ Len(result) = 1
        /\ merge_input = <<Lines(10, 20), Lines(25, 30)>>
              => Elems(result) = {Lines(10, 20), Lines(25, 30)} /\ Len(result) = 2
        /\ merge_input = <<Lines(10, 20), Lines(26, 30)>>
              => Elems(result) = {Lines(10, 20), Lines(26, 30)} /\ Len(result) = 2

C2_Witness ==
    Returned /\ calls = 1 /\ merge_input = <<Lines(10, 20), Lines(25, 30)>>

----------------------------------------------------------------------------
(* C3 *)

\* C3: merge_chunks returns the same chunk boundaries for every permutation of
\* its argument, chunks with equal first lines included.
C3_Determinism ==
    Returned =>
        \A p \in Permutations(DOMAIN merge_input) :
            Boundaries(merge_chunks(Reorder(merge_input, p))) = Boundaries(Elems(result))

----------------------------------------------------------------------------
(* C4 *)

\* C4: the returned chunks are pairwise disjoint and pairwise different, and
\* of any two of them the later one starts at least 5 lines after the earlier
\* one's last line.
C4_NonOverlapping ==
    Returned =>
        \A i, j \in DOMAIN result : i # j =>
            /\ LineSet(result[i]) \cap LineSet(result[j]) = {}
            /\ result[i] # result[j]
            /\ First(result[i]) <= First(result[j])
                  => First(result[j]) - Last(result[i]) >= 5

C4_Witness ==
    /\ Returned
    /\ Len(result) = 2
    /\ \E i, j \in DOMAIN merge_input : i # j /\ merge_input[i] = merge_input[j]

----------------------------------------------------------------------------
(* C5 *)

\* C5: merge_chunks applied to what merge_chunks returned returns the same
\* chunks, as many of them, whatever their order.
C5_Idempotence ==
    (Returned /\ calls >= 2) =>
        Elems(result) = Elems(prev_result) /\ Len(result) = Len(prev_result)

C5_Witness ==
    /\ Returned
    /\ calls = 2
    /\ Len(result) = 2
    /\ Len(response.line_ranges) = 3

----------------------------------------------------------------------------
(* C6 *)

\* C6: a response that is not an object, lacks line_ranges, or has an item
\* without start or end ends the retrieval in MalformedResponseError, and no
\* chunk list is returned.
C6_MalformedResponseError ==
    Malformed =>
        /\ pc # "done"
        /\ pc = "raised" => outcome = "MalformedResponseError"

----------------------------------------------------------------------------
(* C7 *)

----------------------------------------------------------------------------
(* C8 *)

NoValidPair ==
    \A i \in DOMAIN response.line_ranges :
        \/ response.line_ranges[i].start > response.line_ranges[i].end
        \/ response.line_ranges[i].start > file.last_lineno

\* C8: a well-formed response never raises; the pairs with start > end build no
\* chunk, truncate_chunks leaves no empty chunk, and when every pair has
\* start > end or lies beyond the file (or there is no pair) the run returns
\* the empty list.
C8_EmptyResult ==
    ~Malformed =>
        /\ pc # "raised"
        /\ outcome \in {"none", "returned"}
        /\ pc = "truncate" =>
              /\ Len(chunks) = Cardinality({i \in DOMAIN response.line_ranges :
                     response.line_ranges[i].start <= response.line_ranges[i].end})
              /\ \A i \in DOMAIN chunks : chunks[i].line_nums # <<>>
        /\ Normalized => \A i \in DOMAIN chunks : chunks[i].line_nums # <<>>
        /\ (Normalized /\ NoValidPair) => chunks = <<>>
        /\ (pc = "done" /\ merge_input = <<>>) => result = <<>> /\ outcome = "returned"
        /\ NoValidPair => pc \in {"extract", "truncate", "merge", "done"}
        /\ (NoValidPair /\ pc = "done") => result = <<>> /\ outcome = "returned"

C8_Witness ==
    /\ Returned
    /\ result = <<>>
    /\ ~Malformed
    /\ Len(response.line_ranges) = 2
    /\ \E i \in 1..2 : response.line_ranges[i].start > response.line_ranges[i].end
    /\ \E i \in 1..2 :
          /\ response.line_ranges[i].start <= response.line_ranges[i].end
          /\ response.line_ranges[i].start > file.last_lineno

----------------------------------------------------------------------------
(* C9 *)

\* C9: the loop runs over chunks sorted by first line; an iteration merges
\* exactly when next_start - curr_end < 5, which every overlap satisfies; a
\* merge makes the current chunk the run from its first line through next_end
\* and emits nothing; otherwise the current chunk is emitted unchanged and the
\* next chunk becomes current.
C9_MergeStep ==
    [][ (pc = "loop" /\ idx <= Len(chunks)) =>
          LET next == chunks[idx]
              gap  == First(next) - Last(curr_chunk)
          IN  /\ \A i, j \in DOMAIN chunks :
                     i < j => First(chunks[i]) <= First(chunks[j])
              /\ idx' = idx + 1
              /\ Last(curr_chunk) >= First(next) => gap < 5
              /\ gap < 5 =>
                    /\ curr_chunk'.line_nums = Range(First(curr_chunk), Last(next))
                    /\ merged_chunks' = merged_chunks
              /\ gap >= 5 =>
                    /\ merged_chunks' = Append(merged_chunks, curr_chunk)
                    /\ curr_chunk' = next ]_vars

C9_Witness ==
    /\ pc = "loop"
    /\ Len(chunks) = 3
    /\ idx = 4
    /\ Len(merged_chunks) = 1
    /\ First(curr_chunk) = First(chunks[3])

----------------------------------------------------------------------------
(* C10 *)

\* C10: every line number of every chunk passed to merge_chunks is a line
\* number of some returned chunk.
C10_Coverage ==
    Returned =>
        \A i \in DOMAIN merge_input : \A ln \in LineSet(merge_input[i]) :
            \E j \in DOMAIN result : ln \in LineSet(result[j])

====
